---- MODULE Spec2Model ----
(***************************************************************************)
(* A model of sort_pictures.py: the planning of date-based target names,   *)
(* the reconciliation of a plan against info.json, and the moves.          *)
(*                                                                         *)
(* A path is a sequence of tokens.  The tokens "/" and "." stand for the   *)
(* path separator and the dot; every other token is a run of characters    *)
(* holding neither.  os.path and str operations are modelled on tokens;   *)
(* no token used here is a substring of another, so that "in" and          *)
(* str.replace on tokens agree with those on characters.                   *)
(***************************************************************************)
EXTENDS Naturals, Sequences, FiniteSets, TLC

VARIABLES
    source,             \* args.source
    out,                \* args.out after main's defaulting
    files,              \* the regular files on disk: path -> [content, stamp]
    dirs,               \* the directories on disk
    info,               \* out/info.json: [state, data]
    pc,                 \* where the current invocation stands
    args,               \* args.apply and args.cleanup of the invocation
    pictures,           \* find_pictures' list of (timestamp, path)
    moves,              \* the dict moves, in insertion order
    old_info,           \* the dict old_info being iterated
    idx,                \* position of the running for loop
    deleted_duplicates, \* the counter of check_update_old_info
    report,             \* what the invocation printed and how it ended
    hist,               \* bookkeeping about earlier invocations
    clock,              \* time.time() of datetime.now(), in ticks
    stat                \* st_ctime and st_mtime of the file being dated

vars == <<source, out, files, dirs, info, pc, args, pictures, moves,
          old_info, idx, deleted_duplicates, report, hist, clock, stat>>

----------------------------------------------------------------------------
(* Bounds *)

MaxPics == 3        \* records handed to create_moves in SpecPlan
MaxAdds == 2        \* files the operator drops into the source tree
MaxRuns == 2        \* invocations of main in one behaviour

----------------------------------------------------------------------------
(* Strings and paths *)

Last(s) == s[Len(s)]

\* the positions of token t in s
Positions(s, t) == {i \in 1..Len(s) : s[i] = t}

Max(S) == CHOOSE x \in S : \A y \in S : y <= x

Min(S) == CHOOSE x \in S : \A y \in S : x <= y

\* str.split(sep) for a one-character separator
RECURSIVE StrSplit(_, _)
StrSplit(s, sep) ==
    IF Positions(s, sep) = {} THEN <<s>>
    ELSE LET i == Min(Positions(s, sep))
         IN  <<SubSeq(s, 1, i - 1)>> \o StrSplit(SubSeq(s, i + 1, Len(s)), sep)

\* needle in s, for str
Contains(s, needle) ==
    \E i \in 0..(Len(s) - Len(needle)) : SubSeq(s, i + 1, i + Len(needle)) = needle

\* str.replace(old, new)
RECURSIVE StrReplace(_, _, _)
StrReplace(s, old, new) ==
    IF Len(s) < Len(old) THEN s
    ELSE IF SubSeq(s, 1, Len(old)) = old
         THEN new \o StrReplace(SubSeq(s, Len(old) + 1, Len(s)), old, new)
         ELSE <<s[1]>> \o StrReplace(SubSeq(s, 2, Len(s)), old, new)

\* os.path.join(a, b) for a relative b
join(a, b) ==
    IF a = <<>> THEN b
    ELSE IF Last(a) = "/" THEN a \o b
    ELSE a \o <<"/">> \o b

\* os.path.basename
basename(p) ==
    IF Positions(p, "/") = {} THEN p
    ELSE SubSeq(p, Max(Positions(p, "/")) + 1, Len(p))

\* os.path.dirname
dirname(p) ==
    IF Positions(p, "/") = {} THEN <<>>
    ELSE LET i == Max(Positions(p, "/"))
             head == SubSeq(p, 1, i)
         IN  IF \A j \in 1..i : head[j] = "/" THEN head ELSE SubSeq(p, 1, i - 1)

----------------------------------------------------------------------------
(* Timestamps *)

\* A datetime is [year, tod, us]: the year, the rest down to the second
\* (one of two times of the year), and the microsecond.

\* str(timestamp.year)
YearStr(y) ==
    CASE y = 2023 -> "2023"
      [] y = 2024 -> "2024"
      [] OTHER -> "0000"

\* timestamp.strftime('%m_%d_%H_%M_%S__%-dth_of_%B_at_%Hh_%Mm')
strftime(t) ==
    CASE t.tod = 1 -> "01_02_10_00_00__2th_of_January_at_10h_00m"
      [] t.tod = 2 -> "03_04_11_30_05__4th_of_March_at_11h_30m"
      [] OTHER -> "00_00_00_00_00__0th_of_None_at_00h_00m"

\* the suffix without the index: every file of a group gets _1
Suffix_same(i) == "_1"

\* f'_{i+1}' for the 0-based i
Suffix(i) ==
    CASE i = 0 -> "_1"
      [] i = 1 -> "_2"
      [] i = 2 -> "_3"
      [] i = 3 -> "_4"
      [] i = 4 -> "_5"
      [] OTHER -> "_n"

----------------------------------------------------------------------------
(* dict, in insertion order: a sequence of [k, v] with distinct k *)

Keys(d) == {d[i].k : i \in 1..Len(d)}

\* d.items() as a set
Entries(d) == {d[i] : i \in 1..Len(d)}

Get(d, key) == (CHOOSE i \in 1..Len(d) : d[i].k = key)

\* d[key]
Value(d, key) == d[Get(d, key)].v

\* d[key] = val
DictSet(d, key, val) ==
    IF key \in Keys(d)
    THEN [i \in 1..Len(d) |-> IF d[i].k = key THEN [k |-> key, v |-> val] ELSE d[i]]
    ELSE Append(d, [k |-> key, v |-> val])

\* a reconcile step that leaves the matched entry in the plan
DictDel_keep(d, key) == d

\* del d[key]
DictDel(d, key) ==
    LET i == Get(d, key)
    IN  SubSeq(d, 1, i - 1) \o SubSeq(d, i + 1, Len(d))

\* d.update(e)
RECURSIVE DictUpdate(_, _)
DictUpdate(d, e) ==
    IF e = <<>> THEN d
    ELSE DictUpdate(DictSet(d, e[1].k, e[1].v), Tail(e))

----------------------------------------------------------------------------
(* create_moves *)

\* the name the first loop computes for one (timestamp, path)
NewName(timestamp, path, o) ==
    LET directory == join(o, <<YearStr(timestamp.year)>>)
        file_ext == Last(StrSplit(basename(path), "."))
        filename == <<strftime(timestamp)>> \o <<".">> \o file_ext
    IN  join(directory, filename)

\* the first loop: mapping[new_name] is the list of paths, in order
RECURSIVE Mapping(_, _, _)
Mapping(pics, o, mapping) ==
    IF pics = <<>> THEN mapping
    ELSE LET new_name == NewName(pics[1].timestamp, pics[1].path, o)
             entry == IF new_name \in Keys(mapping)
                      THEN Append(mapping[Get(mapping, new_name)].v, pics[1].path)
                      ELSE <<pics[1].path>>
         IN  Mapping(Tail(pics), o, DictSet(mapping, new_name, entry))

\* the inner loop over enumerate(files), from position i (0-based):
\* the unpacking of new_name.split('.') raises unless it has two parts
RECURSIVE Enumerate(_, _, _, _)
Enumerate(new_name, fs, i, acc) ==
    IF i >= Len(fs) THEN [ok |-> TRUE, moves |-> acc]
    ELSE LET parts == StrSplit(new_name, ".")
         IN  IF Len(parts) # 2 THEN [ok |-> FALSE, moves |-> acc]
             ELSE LET name == parts[1] \o <<Suffix(i)>> \o <<".">> \o parts[2]
                  IN  Enumerate(new_name, fs, i + 1, DictSet(acc, name, fs[i + 1]))

\* the second loop
RECURSIVE Finish(_, _)
Finish(mapping, acc) ==
    IF mapping = <<>> THEN [ok |-> TRUE, moves |-> acc]
    ELSE LET new_name == mapping[1].k
             fs == mapping[1].v
         IN  IF Len(fs) = 1
             THEN Finish(Tail(mapping), DictSet(acc, new_name, fs[1]))
             ELSE LET r == Enumerate(new_name, fs, 0, acc)
                  IN  IF r.ok THEN Finish(Tail(mapping), r.moves) ELSE r

\* create_moves(pictures, out): ok is FALSE when it raises ValueError
create_moves(pics, o) == Finish(Mapping(pics, o, <<>>), <<>>)

----------------------------------------------------------------------------
(* The file system *)

Contents == {"x", "y"}

\* the timestamp resolver raised for this file
NoStamp == [year |-> 0, tod |-> 0, us |-> 0]

\* what the files of a run resolve to
RunStamps == {[year |-> 2023, tod |-> 1, us |-> 0],
              [year |-> 2024, tod |-> 1, us |-> 0]}

allowed_picture_extensions ==
    {"jpg", "JPG", "jpeg", "JPEG", "png", "PNG", "gif", "GIF", "NEF", "CR2", "dng", "bmp"}

video_extensions == {"mp4", "MP4", "mov", "MOV", "avi", "AVI"}

\* file.endswith('.' + ext) for one of the extensions
EndsWithExt(name, exts) ==
    /\ Len(name) >= 2
    /\ name[Len(name) - 1] = "."
    /\ Last(name) \in exts

\* p lies below the directory d
Below(p, d) ==
    /\ Len(p) > Len(d) + 1
    /\ SubSeq(p, 1, Len(d)) = d
    /\ p[Len(d) + 1] = "/"

\* os.makedirs(d): d and every missing ancestor
makedirs(ds, d) ==
    ds \cup {SubSeq(d, 1, i) : i \in {j \in 2..Len(d) : j = Len(d) \/ d[j + 1] = "/"}}

\* out/info.json
json_file == join(out, <<"info", ".", "json">>)

\* os.path.exists
exists(p) ==
    \/ p \in DOMAIN files
    \/ p \in dirs
    \/ (p = json_file /\ info.state # "absent")

\* the function f without the argument p
Without(f, p) == [q \in DOMAIN f \ {p} |-> f[q]]

\* the function f with p mapped to val
With(f, p, val) == [q \in DOMAIN f \cup {p} |-> IF q = p THEN val ELSE f[q]]

----------------------------------------------------------------------------
(* find_pictures *)

\* the files find_pictures appends to pictures
Found ==
    {p \in DOMAIN files :
        /\ Below(p, source)
        /\ EndsWithExt(basename(p), allowed_picture_extensions \cup video_extensions)
        /\ files[p].stamp # NoStamp}

\* the orders in which os.walk(source) can yield the files of S: a
\* directory's files together, and before those of the directories below it
WalkOrders(S) ==
    {o \in [1..Cardinality(S) -> S] :
        /\ \A i, j \in 1..Cardinality(S) : i # j => o[i] # o[j]
        /\ \A i, j \in 1..Cardinality(S) :
              i < j => ~Below(dirname(o[i]), dirname(o[j]))
        /\ \A i, j, l \in 1..Cardinality(S) :
              (i < j /\ j < l /\ dirname(o[i]) = dirname(o[l]))
                  => dirname(o[j]) = dirname(o[i])}

\* find_pictures(source) for one walk order
find_pictures(o) == [i \in 1..Len(o) |-> [timestamp |-> files[o[i]].stamp, path |-> o[i]]]

----------------------------------------------------------------------------
(* One invocation of main, step by step *)

\* how an invocation stands or ended: the exceptions are named with the
\* place that raises them
Statuses ==
    {"none", "running", "done", "killed",
     "ValueError: Source is not a directory",
     "ValueError: too many values to unpack",
     "ValueError: Found more than one file",
     "ValueError: File already exists",
     "ValueError: Suspicious timestamp",
     "JSONDecodeError", "FileNotFoundError", "TypeError"}

\* what main printed: the files moved, the "are different" lines, the
\* "Deleted n duplicates" line, the dry run's list, cleanup's count; same
\* counts the comparisons that found equal content, which main does not print
NoReport ==
    [status |-> "none", moved |-> 0, different |-> 0, same |-> 0,
     duplicates |-> 0, listed |-> <<>>, removed |-> 0]

\* the targets this invocation has moved a file to so far
MovedSoFar ==
    IF ~args.apply THEN {}
    ELSE IF pc = "move" THEN {moves[i].k : i \in 1..(idx - 1)}
    ELSE IF pc \in {"append", "dump"} THEN Keys(moves)
    ELSE {}

\* the local variables are gone once do_move_files or dryrun_move_files
\* is left
Return ==
    /\ pictures' = <<>>
    /\ moves' = <<>>
    /\ old_info' = <<>>
    /\ idx' = 1
    /\ deleted_duplicates' = 0

\* the process ends: of args, the bookkeeping keeps the mode it ran in
Exit ==
    /\ Return
    /\ args' = [args EXCEPT !.cleanup = FALSE]

\* an exception leaves main: the invocation ends with a traceback
Raise(err) ==
    /\ pc' = "idle"
    /\ report' = [report EXCEPT !.status = err]
    /\ hist' = [hist EXCEPT !.orphans = @ \cup MovedSoFar,
                            !.safe = @ /\ MovedSoFar \subseteq DOMAIN files,
                            !.pure = FALSE]
    /\ Exit

\* a load that swallows the error and goes on with {}
json_load_lenient == FALSE

\* json.load(f) raises on an info.json that is no JSON document
json_load_raises == info.state = "corrupt"

\* old_info after the load: {} unless info.json exists
load == IF info.state = "ok" THEN info.data ELSE <<>>

\* dryrun_move_files passing dry_run=False
dry_run_never == FALSE

\* the parameter dry_run of check_update_old_info and append_moves_to_json:
\* do_move_files passes False, dryrun_move_files leaves the default True
dry_run == ~args.apply

\* where do_move_files / dryrun_move_files go on once the loop of
\* check_update_old_info has ended with the plan m
AfterCheck(m) ==
    IF ~args.apply THEN "print"
    ELSE IF m = <<>> THEN "append" ELSE "move"

\* no file is being dated
NoStat == [ctime |-> 0, mtime |-> 0]

NoLedger == [state |-> "absent", data |-> <<>>]

\* main up to the first iteration of check_update_old_info: find_pictures,
\* create_moves, and the load of info.json
main(apply, cleanupFlag, o) ==
    /\ UNCHANGED <<clock, stat>>
    /\ pc = "idle"
    /\ hist.runs < MaxRuns
    /\ hist' = [hist EXCEPT !.runs = @ + 1,
                            !.after = hist.clean,
                            !.ledger1 = IF hist.clean THEN info ELSE NoLedger,
                            !.clean = FALSE,
                            !.orphans = IF report.status = "done" /\ args.apply
                                        THEN {} ELSE @,
                            !.swept = {},
                            !.pure = /\ @
                                     /\ apply
                                     /\ source \in dirs
                                     /\ create_moves(find_pictures(o), out).ok
                                     /\ ~json_load_raises]
    /\ UNCHANGED <<source, out, files, dirs, info>>
    /\ IF source \notin dirs
       THEN /\ report' = [NoReport EXCEPT !.status = "ValueError: Source is not a directory"]
            /\ pc' = "idle"
            /\ args' = [apply |-> apply, cleanup |-> FALSE]
            /\ Return
       ELSE LET r == create_moves(find_pictures(o), out)
            IN  IF ~r.ok
                THEN /\ report' = [NoReport EXCEPT
                                        !.status = "ValueError: too many values to unpack"]
                     /\ pc' = "idle"
                     /\ args' = [apply |-> apply, cleanup |-> FALSE]
                     /\ Return
                ELSE IF json_load_raises
                THEN /\ report' = [NoReport EXCEPT !.status = "JSONDecodeError"]
                     /\ pc' = "idle"
                     /\ args' = [apply |-> apply, cleanup |-> FALSE]
                     /\ Return
                ELSE /\ report' = [NoReport EXCEPT !.status = "running"]
                     /\ args' = [apply |-> apply, cleanup |-> cleanupFlag]
                     /\ pictures' = find_pictures(o)
                     /\ moves' = r.moves
                     /\ old_info' = load
                     /\ idx' = 1
                     /\ deleted_duplicates' = 0
                     /\ pc' = IF load # <<>> THEN "reconcile"
                              ELSE IF ~apply THEN "print"
                              ELSE IF r.moves = <<>> THEN "append" ELSE "move"

\* the path filecmp.cmp reads for the ledger key k
existing_path(k) ==
    StrReplace(k, <<"/", "pictures_sorted", "/">>, <<"/", "pictures", "/">>)

\* filecmp.cmp(f1, f2, shallow=False) for two regular files
filecmp(f1, f2) == files[f1].content = files[f2].content

\* one iteration of the loop of check_update_old_info, over old_info[idx]
check_update_old_info ==
    /\ UNCHANGED <<clock, stat>>
    /\ pc = "reconcile"
    /\ UNCHANGED <<source, out, dirs, info>>
    /\ LET k == old_info[idx].k
           old_filename == basename(k)
           incoming_files == {i \in 1..Len(moves) : Contains(moves[i].k, old_filename)}
           last == idx = Len(old_info)
       IN  IF old_filename \notin {basename(moves[i].k) : i \in 1..Len(moves)}
           THEN /\ idx' = IF last THEN 1 ELSE idx + 1
                /\ pc' = IF last THEN AfterCheck(moves) ELSE "reconcile"
                /\ UNCHANGED <<files, args, pictures, moves, old_info,
                               deleted_duplicates, report, hist>>
           ELSE IF Cardinality(incoming_files) # 1
           THEN /\ Raise("ValueError: Found more than one file")
                /\ UNCHANGED files
           ELSE LET n == CHOOSE i \in incoming_files : TRUE
                    incoming_file == moves[n].v
                    existing_file == existing_path(k)
                    rest == DictDel(moves, moves[n].k)
                IN  IF existing_file \notin DOMAIN files \/ incoming_file \notin DOMAIN files
                    THEN /\ Raise("FileNotFoundError")
                         /\ UNCHANGED files
                    ELSE /\ moves' = rest
                         /\ idx' = IF last THEN 1 ELSE idx + 1
                         /\ pc' = IF last THEN AfterCheck(rest) ELSE "reconcile"
                         /\ UNCHANGED <<args, pictures, old_info, hist>>
                         /\ IF ~filecmp(existing_file, incoming_file)
                            THEN /\ report' = [report EXCEPT !.different = @ + 1]
                                 /\ UNCHANGED <<files, deleted_duplicates>>
                            ELSE /\ report' = [report EXCEPT !.same = @ + 1]
                                 /\ IF dry_run
                                    THEN UNCHANGED <<files, deleted_duplicates>>
                                    ELSE /\ deleted_duplicates' = deleted_duplicates + 1
                                         /\ files' = Without(files, incoming_file)

\* sort_file_in without its check
target_taken_never(outfile) == FALSE

\* the check of sort_file_in: os.path.exists(outfile)
target_taken(outfile) == exists(outfile)

\* one iteration of the loop of do_move_files: sort_file_in(new_file, old_file)
sort_file_in ==
    /\ UNCHANGED <<clock, stat>>
    /\ pc = "move"
    /\ UNCHANGED <<source, out, info>>
    /\ LET outfile == moves[idx].k
           infile == moves[idx].v
           dir == dirname(outfile)
           last == idx = Len(moves)
       IN  /\ dirs' = IF exists(dir) THEN dirs ELSE makedirs(dirs, dir)
           /\ IF target_taken(outfile)
              THEN /\ Raise("ValueError: File already exists")
                   /\ UNCHANGED files
              ELSE IF infile \notin DOMAIN files
              THEN /\ Raise("FileNotFoundError")
                   /\ UNCHANGED files
              ELSE /\ files' = With(Without(files, infile), outfile, files[infile])
                   /\ report' = [report EXCEPT !.moved = @ + 1]
                   /\ idx' = IF last THEN 1 ELSE idx + 1
                   /\ pc' = IF last THEN "append" ELSE "move"
                   /\ UNCHANGED <<args, pictures, moves, old_info, deleted_duplicates,
                                  hist>>

\* some key of old_info is a key of moves: the check of append_moves_to_json
conflict(old, m) == \E i \in 1..Len(old) : old[i].k \in Keys(m)

\* append_moves_to_json(moves, json_file, dry_run=False) up to open(json_file, 'w'),
\* which leaves an empty info.json
append_moves_to_json ==
    /\ UNCHANGED <<clock, stat>>
    /\ pc = "append"
    /\ UNCHANGED <<source, out, files>>
    /\ IF json_load_raises
       THEN /\ Raise("JSONDecodeError")
            /\ UNCHANGED <<dirs, info>>
       ELSE IF conflict(load, moves)
       THEN /\ Raise("TypeError")
            /\ UNCHANGED <<dirs, info>>
       ELSE /\ old_info' = DictUpdate(load, moves)
            /\ dirs' = IF exists(json_file) THEN dirs ELSE makedirs(dirs, out)
            /\ info' = [state |-> "corrupt", data |-> <<>>]
            /\ pc' = "dump"
            /\ UNCHANGED <<args, pictures, moves, idx, deleted_duplicates, report,
                           hist>>

\* json.dump(old_info, f), the close of the file, and the end of do_move_files
json_dump ==
    /\ UNCHANGED <<clock, stat>>
    /\ pc = "dump"
    /\ info' = [state |-> "ok", data |-> old_info]
    /\ report' = [report EXCEPT !.status = "done", !.duplicates = deleted_duplicates]
    /\ hist' = [hist EXCEPT !.clean = TRUE,
                            !.seen = @ \cup Entries(old_info)]
    /\ pc' = IF args.cleanup THEN "cleanup" ELSE "idle"
    /\ Return
    /\ UNCHANGED <<source, out, files, dirs, args>>

\* dryrun_move_files after check_update_old_info: the printed list and
\* append_moves_to_json(moves, json_file) with dry_run=True
dryrun_move_files ==
    /\ UNCHANGED <<clock, stat>>
    /\ pc = "print"
    /\ UNCHANGED <<source, out, files, dirs, info>>
    /\ IF json_load_raises
       THEN Raise("JSONDecodeError")
       ELSE IF conflict(load, moves)
       THEN Raise("TypeError")
       ELSE /\ report' = [report EXCEPT !.status = "done", !.listed = moves,
                                        !.duplicates = deleted_duplicates]
            /\ pc' = IF args.cleanup THEN "cleanup" ELSE "idle"
            /\ Return
            /\ UNCHANGED <<args, hist>>

----------------------------------------------------------------------------
(* cleanup *)

\* every file on disk, info.json included
AllFiles == DOMAIN files \cup (IF info.state = "absent" THEN {} ELSE {json_file})

\* os.walk(root, topdown=False): the directories, children before parents
RECURSIVE Walk(_)
RECURSIVE WalkAll(_)
Walk(d) == WalkAll({c \in dirs : dirname(c) = d}) \o <<d>>

WalkAll(S) ==
    IF S = {} THEN <<>>
    ELSE LET c == CHOOSE c \in S : TRUE
         IN  Walk(c) \o WalkAll(S \ {c})

\* the loop of cleanup over the walk, deleted being the set built so far
RECURSIVE Sweep(_, _)
Sweep(todo, deleted) ==
    IF todo = <<>> THEN deleted
    ELSE LET current_dir == todo[1]
             subdirs == {c \in dirs : dirname(c) = current_dir}
             fs == {p \in AllFiles : dirname(p) = current_dir}
             still_has_subdirs == \E c \in subdirs : c \notin deleted
         IN  IF fs = {} /\ ~still_has_subdirs
             THEN Sweep(Tail(todo), deleted \cup {current_dir})
             ELSE Sweep(Tail(todo), deleted)

\* a cleanup walking top-down: no directory sees its subdirectories gone
cleanup_topdown(root) ==
    IF root \in dirs
    THEN {d \in Entries(Walk(root)) :
            /\ {p \in AllFiles : dirname(p) = d} = {}
            /\ {c \in dirs : dirname(c) = d} = {}}
    ELSE {}

\* cleanup(root): the set deleted
cleanup(root) == IF root \in dirs THEN Sweep(Walk(root), {}) ELSE {}

\* main's last step, taken when args.cleanup is set
main_cleanup ==
    /\ UNCHANGED <<clock, stat>>
    /\ pc = "cleanup"
    /\ dirs' = dirs \ cleanup(source)
    /\ report' = [report EXCEPT !.removed = Cardinality(cleanup(source))]
    /\ pc' = "idle"
    /\ args' = [args EXCEPT !.cleanup = FALSE]
    /\ hist' = [hist EXCEPT !.swept = cleanup(source)]
    /\ UNCHANGED <<source, out, files, info, pictures, moves, old_info,
                   idx, deleted_duplicates>>

----------------------------------------------------------------------------
(* The environment *)

\* the process is killed (or the write to info.json fails) where it stands
Kill ==
    /\ UNCHANGED <<clock, stat>>
    /\ pc # "idle"
    /\ pc' = "idle"
    /\ report' = [report EXCEPT !.status = "killed"]
    /\ hist' = [hist EXCEPT !.orphans = @ \cup MovedSoFar,
                            !.safe = @ /\ MovedSoFar \subseteq DOMAIN files,
                            !.clean = FALSE,
                            !.pure = FALSE]
    /\ Exit
    /\ UNCHANGED <<source, out, files, dirs, info>>

AddNames == {<<"a", ".", "jpg">>, <<"b", ".", "jpg">>}

\* between two invocations the operator puts a file into the source directory
AddFile(name, c, st) ==
    /\ UNCHANGED <<clock, stat>>
    /\ pc = "idle"
    /\ hist.adds < MaxAdds
    /\ source \in dirs
    /\ ~exists(join(source, name))
    /\ files' = With(files, join(source, name), [content |-> c, stamp |-> st])
    /\ hist' = [hist EXCEPT !.adds = @ + 1, !.clean = FALSE,
                            !.pure = @ /\ (hist.runs = 0 \/ ~Below(join(source, name), out))]
    /\ UNCHANGED <<source, out, dirs, info, pc, args, pictures, moves, old_info,
                   idx, deleted_duplicates, report>>

----------------------------------------------------------------------------
(* The program *)

\* main's default for args.out
default_out(src) == join(dirname(src), <<"pictures">>)

\* the command lines: args.source (absolute) and --out, <<>> standing for None
CommandLines ==
    {[source |-> <<"/", "in">>, out |-> <<>>],
     [source |-> <<"/", "pictures">>, out |-> <<>>],
     [source |-> <<"/", "in">>, out |-> <<"/", "pictures_sorted">>],
     [source |-> <<"/", "in">>, out |-> <<"/", "my", ".", "pics">>]}

NoHist ==
    [runs |-> 0, adds |-> 0, clean |-> FALSE, after |-> FALSE,
     ledger1 |-> NoLedger, orphans |-> {}, safe |-> TRUE,
     seen |-> {}, pure |-> TRUE, swept |-> {}]

Init ==
    /\ \E c \in CommandLines :
          /\ source = c.source
          /\ out = IF c.out = <<>> THEN default_out(c.source) ELSE c.out
    /\ files = <<>>
    /\ dirs = {source}
    /\ info = NoLedger
    /\ pc = "idle"
    /\ args = [apply |-> FALSE, cleanup |-> FALSE]
    /\ pictures = <<>>
    /\ moves = <<>>
    /\ old_info = <<>>
    /\ idx = 1
    /\ deleted_duplicates = 0
    /\ report = NoReport
    /\ hist = NoHist
    /\ clock = 0
    /\ stat = NoStat

Next ==
    \/ \E name \in AddNames, c \in Contents, st \in RunStamps :
          AddFile(name, c, st)
    \/ \E apply \in BOOLEAN, cl \in BOOLEAN, o \in WalkOrders(Found) : main(apply, cl, o)
    \/ check_update_old_info
    \/ sort_file_in
    \/ append_moves_to_json
    \/ json_dump
    \/ dryrun_move_files
    \/ main_cleanup
    \/ Kill

Spec == Init /\ [][Next]_vars

----------------------------------------------------------------------------
(* create_moves on its own: SpecPlan hands it bounded lists of records *)

PlanStamps == {[year |-> 2023, tod |-> 1, us |-> 0],
               [year |-> 2024, tod |-> 1, us |-> 0],
               [year |-> 2024, tod |-> 1, us |-> 7],
               [year |-> 2024, tod |-> 2, us |-> 0]}

PlanPaths == {<<"/", "in", "/", "a", ".", "jpg">>,
              <<"/", "in", "/", "b", ".", "jpg">>,
              <<"/", "in", "/", "sub", ".", "dir", "/", "c", ".", "v2", ".", "jpg">>,
              <<"/", "in", "/", "d", ".", "png">>}

PlanOuts == {<<"/", "pictures">>, <<"/", "my", ".", "pics">>, <<".", "/", "sorted">>}

PlanRecords == [timestamp : PlanStamps, path : PlanPaths]

\* the lists of at most MaxPics records with distinct paths
PlanInputs ==
    {l \in UNION {[1..n -> PlanRecords] : n \in 0..MaxPics} :
        \A i, j \in 1..Len(l) : i # j => l[i].path # l[j].path}

InitPlan ==
    /\ pictures \in PlanInputs
    /\ out \in PlanOuts
    /\ source = <<"/", "in">>
    /\ files = <<>>
    /\ dirs = {}
    /\ info = NoLedger
    /\ pc = "plan"
    /\ args = [apply |-> FALSE, cleanup |-> FALSE]
    /\ moves = <<>>
    /\ old_info = <<>>
    /\ idx = 1
    /\ deleted_duplicates = 0
    /\ report = NoReport
    /\ hist = NoHist
    /\ clock = 0
    /\ stat = NoStat

\* moves = create_moves(pictures, out)
Plan ==
    /\ UNCHANGED <<clock, stat>>
    /\ pc = "plan"
    /\ pc' = "planned"
    /\ LET r == create_moves(pictures, out)
       IN  /\ moves' = r.moves
           /\ report' = [report EXCEPT !.status =
                  IF r.ok THEN "done" ELSE "ValueError: too many values to unpack"]
    /\ UNCHANGED <<source, out, files, dirs, info, args, pictures, old_info, idx,
                   deleted_duplicates, hist>>

SpecPlan == InitPlan /\ [][Plan]_vars

\* create_moves has returned a plan
Planned == pc = "planned" /\ report.status = "done"

\* two of the records fall on the same second and extension
SameSlot(r1, r2) ==
    /\ r1.timestamp.year = r2.timestamp.year
    /\ r1.timestamp.tod = r2.timestamp.tod
    /\ Last(basename(r1.path)) = Last(basename(r2.path))

\* C5: the plan create_moves returns has one entry per record: no two
\* entries share a target and every source path is the value of exactly one.
C5_CollisionFree ==
    Planned =>
        /\ Len(moves) = Len(pictures)
        /\ \A i, j \in 1..Len(moves) : i # j => moves[i].k # moves[j].k
        /\ \A i \in 1..Len(pictures) :
              Cardinality({j \in 1..Len(moves) : moves[j].v = pictures[i].path}) = 1

\* a plan for three records of which the first two share their second and
\* extension and the third shares the second with another extension
C5_Witness ==
    /\ Planned
    /\ Len(pictures) = 3
    /\ SameSlot(pictures[1], pictures[2])
    /\ pictures[3].timestamp = pictures[1].timestamp
    /\ ~SameSlot(pictures[1], pictures[3])

\* the target the disambiguation rule gives the i-th record: the base name,
\* and for a group of several the 1-based rank before the extension
ExpectedTarget(i) ==
    LET group == {j \in 1..Len(pictures) : SameSlot(pictures[j], pictures[i])}
        rank == Cardinality({j \in group : j < i})
        ext == Last(basename(pictures[i].path))
        stem == out \o <<"/", YearStr(pictures[i].timestamp.year), "/",
                         strftime(pictures[i].timestamp)>>
    IN  IF Cardinality(group) = 1
        THEN stem \o <<".", ext>>
        ELSE stem \o <<Suffix(rank), ".", ext>>

\* C6: create_moves maps a record alone in its (second, extension) group to
\* the base target and the i-th of a larger group to the base with _i
\* before the extension.
C6_Disambiguation ==
    pc = "planned" =>
        /\ report.status = "done"
        /\ \A i \in 1..Len(pictures) :
              \E j \in 1..Len(moves) :
                  moves[j].k = ExpectedTarget(i) /\ moves[j].v = pictures[i].path

----------------------------------------------------------------------------
(* Properties of the invocations, under Spec *)

\* this step is taken by the program (the process is not killed in it)
ProgramStep == report'.status # "killed"

\* this step is the start of an invocation
StartStep == pc = "idle" /\ hist'.runs > hist.runs

\* the invocation has ended (only the cleanup may be left) and was not killed
Ended ==
    /\ pc \in {"idle", "cleanup"}
    /\ report.status \notin {"none", "running", "killed"}

\* C1: a file leaves its path only by being moved to the target of its plan
\* entry, or by the reconcile step of an Apply run while a file of the same
\* content is at the ledger key being reconciled, which is still there after
\* the step; no step changes the content at a path.
C1_NoDataLoss ==
    [][\A p \in DOMAIN files :
          /\ p \in DOMAIN files' => files'[p] = files[p]
          /\ p \notin DOMAIN files' =>
                \/ /\ pc = "move"
                   /\ moves[idx].v = p
                   /\ moves[idx].k \in DOMAIN files'
                   /\ files'[moves[idx].k] = files[p]
                \/ /\ pc = "reconcile"
                   /\ args.apply
                   /\ old_info[idx].k \in DOMAIN files'
                   /\ files'[old_info[idx].k].content = files[p].content]_vars

\* C2: a move whose target exists raises and leaves every file where it
\* is; any other move creates the parent directory and takes the file from
\* its source path to the target.
C2_NeverOverwrite ==
    [][(pc = "move" /\ ProgramStep) =>
          LET outfile == moves[idx].k
              infile == moves[idx].v
          IN  IF exists(outfile)
              THEN /\ report'.status = "ValueError: File already exists"
                   /\ files' = files
              ELSE /\ dirname(outfile) \in dirs'
                   /\ outfile \in DOMAIN files'
                   /\ files'[outfile] = files[infile]
                   /\ infile \notin DOMAIN files'
                   /\ \A p \in DOMAIN files \ {infile} :
                         p \in DOMAIN files' /\ files'[p] = files[p]]_vars

\* an Apply run was stopped by a target that already existed, after it had
\* moved another file
C2_Witness ==
    /\ report.status = "ValueError: File already exists"
    /\ report.moved > 0
    /\ args.apply

\* this step belongs to an invocation without --apply
DryStep == IF StartStep THEN ~args'.apply ELSE pc # "idle" /\ ~args.apply

\* C3 as stated: no step of a DryRun invocation changes a file, a directory
\* or info.json.
C3_DryRunPure == [][DryStep => UNCHANGED <<files, dirs, info>>]_vars

\* C3 amended: no step of a DryRun invocation changes a file or info.json,
\* and none but the cleanup pass asked for with --cleanup changes a directory.
C3_DryRunPureButCleanup ==
    [][DryStep =>
          /\ UNCHANGED <<files, info>>
          /\ pc # "cleanup" => UNCHANGED dirs]_vars

\* a DryRun invocation has ended whose plan held a byte-identical duplicate
\* of a ledgered file
C3_Witness ==
    /\ Ended
    /\ ~args.apply
    /\ report.status = "done"
    /\ report.same > 0

\* C4: an Apply run that directly follows a completed Apply run, with no
\* file added in between, ends without error, has moved and deleted
\* nothing, has reported no differing file, and leaves info.json as the first
\* run wrote it.
C4_Idempotence ==
    (Ended /\ args.apply /\ hist.after) =>
        /\ report.status = "done"
        /\ report.moved = 0
        /\ report.duplicates = 0
        /\ report.different = 0
        /\ info = hist.ledger1

\* C7: the reconcile step for a ledger key that is a key of the plan, with
\* its file A on disk: when the plan's source B equals A in content, B is
\* deleted, the entry leaves the plan and the duplicate count grows by one;
\* when it differs, no file changes, the difference is reported and the run
\* goes on.
C7_DuplicateRoundTrip ==
    [][(/\ pc = "reconcile"
        /\ ProgramStep
        /\ args.apply
        /\ old_info[idx].k \in Keys(moves)
        /\ old_info[idx].k \in DOMAIN files
        /\ moves[Get(moves, old_info[idx].k)].v \in DOMAIN files) =>
          LET T == old_info[idx].k
              B == moves[Get(moves, T)].v
          IN  IF files[B].content = files[T].content
              THEN /\ B \notin DOMAIN files'
                   /\ report'.status = "running"
                   /\ T \notin Keys(moves')
                   /\ deleted_duplicates' = deleted_duplicates + 1
              ELSE /\ files' = files
                   /\ report'.status = "running"
                   /\ report'.different = report.different + 1]_vars

\* C8: info.json is never empty or partly written.
C8_CrashSafeLedger == info.state # "corrupt"

\* C9: the files an interrupted Apply run had moved are at their new paths,
\* and the next completed Apply run has their targets as keys of info.json.
C9_CrashRecovery ==
    /\ hist.safe
    /\ (Ended /\ args.apply /\ report.status = "done") =>
          hist.orphans \subseteq Keys(info.data)

\* C10: an invocation that finds info.json unreadable ends with an error in
\* its first step, with no file, directory or info.json changed; one that
\* finds no info.json, and whose plan was built, goes on with an empty
\* old_info.
C10_LedgerLoad ==
    [][StartStep =>
          /\ info.state = "corrupt" =>
                /\ pc' = "idle"
                /\ report'.status \in
                      {"JSONDecodeError", "ValueError: Source is not a directory",
                       "ValueError: too many values to unpack"}
                /\ UNCHANGED <<files, dirs, info>>
          /\ (info.state = "absent" /\ pc' # "idle") =>
                /\ report'.status = "running"
                /\ old_info' = <<>>]_vars

\* an invocation was stopped by an unreadable info.json
C10_Witness == report.status = "JSONDecodeError"

\* C11: once an invocation has ended, info.json holds every entry that it
\* held when an earlier Apply run completed, with the same value; and a
\* completed Apply run writes the entries it loaded followed by those of its
\* reconciled plan, and nothing else.
C11_LedgerMonotone ==
    /\ [](pc = "idle" => hist.seen \subseteq Entries(info.data))
    /\ [][(pc = "append" /\ pc' = "dump") =>
             /\ Entries(old_info') = Entries(info.data) \cup Entries(moves)
             /\ \A e \in Entries(info.data) : Value(old_info', e.k) = e.v]_vars
    /\ [][(pc = "dump" /\ ProgramStep) => info'.data = old_info]_vars

\* a DryRun invocation has ended normally
DryDone == Ended /\ ~args.apply /\ report.status = "done"

\* C12: the duplicate count a DryRun reports is the number of plan entries
\* it found byte-identical to the ledgered file, the count an Apply run on
\* the same state reports as deleted.
C12_DryRunReport == DryDone => report.duplicates = report.same

\* the file that the ledger key k names and the source of the plan entry
\* for k differ in content
Differing(k) ==
    /\ k \in Keys(moves)
    /\ existing_path(k) \in DOMAIN files
    /\ Value(moves, k) \in DOMAIN files
    /\ ~filecmp(existing_path(k), Value(moves, k))

\* C13: when the key check_update_old_info stands at is a key of the plan
\* too and the two files differ, the iteration reports it, raises nothing
\* and leaves the entry in the plan, mapped to the same source.
C13_DifferingKept ==
    [][(pc = "reconcile" /\ ProgramStep /\ Differing(old_info[idx].k)) =>
          /\ report'.status = "running"
          /\ report'.different = report.different + 1
          /\ old_info[idx].k \in Keys(moves')
          /\ Value(moves', old_info[idx].k) = Value(moves, old_info[idx].k)]_vars

\* C14: an iteration of check_update_old_info leaves alone every plan entry
\* whose target is not a key of old_info: the entry stays in the plan, its
\* source file stays on disk, and the invocation goes on.
C14_ReconcileScope ==
    [][(pc = "reconcile" /\ ProgramStep) =>
          \A i \in 1..Len(moves) :
             moves[i].k \notin Keys(old_info) =>
                /\ report'.status = "running"
                /\ moves[i] \in Entries(moves')
                /\ (moves[i].v \in DOMAIN files => moves[i].v \in DOMAIN files')]_vars

\* the loop of check_update_old_info has ended and the invocation goes on
Reconciled == pc \in {"print", "move", "append"}

\* C15: once check_update_old_info has returned, no key of the plan is a
\* key of info.json, and no invocation ends in the error of the conflict
\* check of append_moves_to_json.
C15_Disjoint ==
    /\ Reconciled => Keys(moves) \cap Keys(load) = {}
    /\ report.status # "TypeError"

\* check_update_old_info has returned after it took at least one entry, the
\* one for a key of info.json, out of the plan
C15_Witness ==
    /\ Reconciled
    /\ load # <<>>
    /\ report.same + report.different > 0

\* C16: a move whose target exists leaves the loop of do_move_files
\* running: the invocation goes on to the next entry, or to the write of
\* info.json after the last.
C16_SingleMoveAbort ==
    [][(pc = "move" /\ ProgramStep /\ exists(moves[idx].k)) =>
          /\ report'.status = "running"
          /\ pc' = IF idx = Len(moves) THEN "append" ELSE "move"]_vars

\* C17: create_moves returns a plan for every list of records and every
\* output root, and in it the target of each record ends with a dot and
\* the characters after the last dot of the record's path.
C17_PlanTotal ==
    pc = "planned" =>
        /\ report.status = "done"
        /\ \A i \in 1..Len(pictures) :
              \E j \in 1..Len(moves) :
                 /\ moves[j].v = pictures[i].path
                 /\ Len(moves[j].k) >= 2
                 /\ moves[j].k[Len(moves[j].k) - 1] = "."
                 /\ Last(moves[j].k) = Last(pictures[i].path)

----------------------------------------------------------------------------
(* cleanup on its own: SpecClean hands it bounded directory trees *)

MaxDirs == 5        \* directories below the root in SpecClean

CleanRoot == <<"/", "root">>

\* a directory outside the tree that cleanup walks
CleanOther == <<"/", "other">>

\* the directories a tree of SpecClean is made of
CleanDirs ==
    {CleanRoot \o <<"/", "a">>,
     CleanRoot \o <<"/", "a", "/", "s">>,
     CleanRoot \o <<"/", "a", "/", "s", "/", "u">>,
     CleanRoot \o <<"/", "b">>,
     CleanRoot \o <<"/", "b", "/", "s">>,
     CleanRoot \o <<"/", "b", "/", "t">>,
     CleanRoot \o <<"/", "c">>}

\* the trees: at most MaxDirs of them, each with its parent
CleanTrees ==
    {S \in SUBSET CleanDirs :
        /\ Cardinality(S) <= MaxDirs
        /\ \A d \in S : dirname(d) \in S \cup {CleanRoot}}

InitClean ==
    /\ source = CleanRoot
    /\ out = default_out(CleanRoot)
    /\ \E S \in CleanTrees :
          /\ dirs = S \cup {CleanRoot, CleanOther}
          /\ \E F \in SUBSET (S \cup {CleanRoot}) :
                files = [p \in {join(d, <<"f", ".", "jpg">>) : d \in F} |->
                            [content |-> "x", stamp |-> NoStamp]]
    /\ info = NoLedger
    /\ pc = "cleanup"
    /\ args = [apply |-> FALSE, cleanup |-> TRUE]
    /\ pictures = <<>>
    /\ moves = <<>>
    /\ old_info = <<>>
    /\ idx = 1
    /\ deleted_duplicates = 0
    /\ report = NoReport
    /\ hist = NoHist
    /\ clock = 0
    /\ stat = NoStat

SpecClean == InitClean /\ [][main_cleanup]_vars

\* the directories of the tree at source with no file anywhere below them
FileFree ==
    {d \in dirs : /\ d = source \/ Below(d, source)
                  /\ \A p \in AllFiles : ~Below(p, d)}

\* what cleanup does on any tree: it walks children before parents, removes
\* the directories with no file below them and no other, keeps every file,
\* and reports the number of directories removed
CleanStep ==
    /\ \A i, j \in 1..Len(Walk(source)) :
          Below(Walk(source)[i], Walk(source)[j]) => i < j
    /\ dirs' = dirs \ FileFree
    /\ UNCHANGED <<files, info>>
    /\ report'.removed = Cardinality(FileFree)

\* the subdirectories of d
Subdirs(d) == {c \in dirs : dirname(c) = d}

\* the tree of the example: an empty leaf a, a directory b holding nothing
\* but empty subdirectories, a directory c holding one file
ExampleTree ==
    /\ Subdirs(source) = {join(source, <<"a">>), join(source, <<"b">>),
                          join(source, <<"c">>)}
    /\ Subdirs(join(source, <<"a">>)) = {}
    /\ Subdirs(join(source, <<"b">>)) # {}
    /\ \A c \in Subdirs(join(source, <<"b">>)) : Subdirs(c) = {}
    /\ Subdirs(join(source, <<"c">>)) = {}
    /\ AllFiles = {join(source, <<"c", "/", "f", ".", "jpg">>)}

\* C18 as stated: cleanup removes exactly the directories with no file
\* below them, children first, keeps every file and returns the number
\* removed; on the example tree it removes a and b, keeps c and returns 2.
C18_TreeCleanerTwo ==
    [][(pc = "cleanup" /\ ProgramStep) =>
          /\ CleanStep
          /\ ExampleTree =>
                /\ join(source, <<"a">>) \notin dirs'
                /\ join(source, <<"b">>) \notin dirs'
                /\ join(source, <<"c">>) \in dirs'
                /\ report'.removed = 2]_vars

\* C18 amended: as above, but on the example tree the number returned
\* counts the empty subdirectories of b as well: 2 plus their number.
C18_TreeCleaner ==
    [][(pc = "cleanup" /\ ProgramStep) =>
          /\ CleanStep
          /\ ExampleTree =>
                /\ join(source, <<"a">>) \notin dirs'
                /\ join(source, <<"b">>) \notin dirs'
                /\ join(source, <<"c">>) \in dirs'
                /\ report'.removed =
                      2 + Cardinality(Subdirs(join(source, <<"b">>)))]_vars

\* cleanup has run on the example tree with one subdirectory in b: it
\* removed a, b and b/s, kept c and its file, and returned 3
C18_Witness ==
    /\ pc = "idle"
    /\ hist.swept = {join(source, <<"a">>), join(source, <<"b">>),
                     join(source, <<"b", "/", "s">>)}
    /\ report.removed = 3
    /\ join(source, <<"c">>) \in dirs
    /\ join(source, <<"c", "/", "f", ".", "jpg">>) \in DOMAIN files

----------------------------------------------------------------------------
(* extract_timestamp_from_filemeta on its own: SpecStamp hands it the times *)
(* of a file and of the clock.  A time is a number of ticks since the      *)
(* start of the first year of a calendar with MaxMonth months of MaxDay    *)
(* days each.                                                              *)

MaxMonth == 2       \* months in a year of the calendar of SpecStamp
MaxDay == 2         \* days in a month of that calendar

StampYears == {2023, 2024}

\* the ticks of one day
Ticks == {0, 1}

TicksPerDay == Cardinality(Ticks)

TicksPerMonth == MaxDay * TicksPerDay

TicksPerYear == MaxMonth * TicksPerMonth

\* the times of the calendar
Times == 0..(Cardinality(StampYears) * TicksPerYear - 1)

\* datetime.datetime.fromtimestamp(t)
fromtimestamp(t) ==
    [year |-> Min(StampYears) + t \div TicksPerYear,
     month |-> 1 + (t % TicksPerYear) \div TicksPerMonth,
     day |-> 1 + (t % TicksPerMonth) \div TicksPerDay,
     tick |-> t % TicksPerDay]

StampPath == <<"/", "in", "/", "a", ".", "jpg">>

InitStamp ==
    /\ clock \in Times
    /\ stat \in [ctime : Times, mtime : Times]
    /\ source = <<"/", "in">>
    /\ out = default_out(source)
    /\ files = <<>>
    /\ dirs = {source}
    /\ info = NoLedger
    /\ pc = "stat"
    /\ args = [apply |-> FALSE, cleanup |-> FALSE]
    /\ pictures = <<>>
    /\ moves = <<>>
    /\ old_info = <<>>
    /\ idx = 1
    /\ deleted_duplicates = 0
    /\ report = NoReport
    /\ hist = NoHist

\* timestamp = extract_timestamp_from_filemeta(path) and, when it returns,
\* pictures.append((timestamp, path))
extract_timestamp_from_filemeta ==
    /\ pc = "stat"
    /\ pc' = "stamped"
    /\ LET min_time == fromtimestamp(Min({stat.ctime, stat.mtime}))
           now == fromtimestamp(clock)
       IN  IF /\ min_time.year = now.year
              /\ min_time.month = now.month
              /\ now.month = min_time.day
              /\ min_time.day = now.day
           THEN /\ report' = [report EXCEPT !.status = "ValueError: Suspicious timestamp"]
                /\ UNCHANGED pictures
           ELSE /\ report' = [report EXCEPT !.status = "done"]
                /\ pictures' = <<[timestamp |-> min_time, path |-> StampPath]>>
    /\ UNCHANGED <<source, out, files, dirs, info, args, moves, old_info, idx,
                   deleted_duplicates, hist, clock, stat>>

SpecStamp == InitStamp /\ [][extract_timestamp_from_filemeta]_vars

\* the earlier of the file's two times falls on the day of the clock
StampedToday ==
    LET m == fromtimestamp(Min({stat.ctime, stat.mtime}))
        n == fromtimestamp(clock)
    IN  m.year = n.year /\ m.month = n.month /\ m.day = n.day

\* C19: extract_timestamp_from_filemeta raises for a file whose earlier
\* time falls on the year, month and day of the clock, whatever the date,
\* and returns that earlier time for a file of any other day.
C19_SuspiciousToday ==
    pc = "stamped" =>
        IF StampedToday
        THEN report.status = "ValueError: Suspicious timestamp"
        ELSE /\ report.status = "done"
             /\ pictures = <<[timestamp |-> fromtimestamp(Min({stat.ctime, stat.mtime})),
                              path |-> StampPath]>>

\* every invocation so far was an Apply run that completed, and nothing
\* else put a file into the output tree since the first of them
OnlyCompletedApplies == hist.pure /\ hist.runs > 0 /\ pc = "idle"

\* C20: after completed Apply runs alone, whatever the roots, every key of
\* info.json is a file on disk and info.json still has every entry those
\* runs wrote; and the write that completes an Apply run has the target of
\* every file the run moved as a key.
C20_LedgerTree ==
    /\ [](OnlyCompletedApplies =>
             /\ \A k \in Keys(info.data) : k \in DOMAIN files
             /\ hist.seen \subseteq Entries(info.data))
    /\ [][(pc = "dump" /\ ProgramStep) => Keys(moves) \subseteq Keys(info'.data)]_vars

====
